---- MODULE Spec2Model ----
(***************************************************************************)
(* Model of the thesis analyzer API (src/app.py).                          *)
(*                                                                         *)
(*  Spec        the request handler analyze_thesis, run by several         *)
(*              requests at once over the shared uploads directory         *)
(*  SpecRecord  generate_recommendations and calculate_overall_score       *)
(*              applied to analysis records                                *)
(*  SpecText    detect_passive_voice and check_academic_tone applied to    *)
(*              tokenized texts                                            *)
(*                                                                         *)
(* Strings the code inspects character by character (file names, words)    *)
(* are tuples of one-character strings.  Numbers the code rounds to two    *)
(* decimals are integers counting hundredths (25.01 is 2501).              *)
(***************************************************************************)
EXTENDS Integers, Sequences, FiniteSets, TLC

VARIABLES
    \* ---- analyze_thesis, one entry per request ----
    pc,             \* position of the request in the handler
    upload,         \* request.files: [thesis, filename]
    body,           \* the bytes of the uploaded file
    file_path,      \* the local file_path, NoPath while unbound
    text,           \* the local text, NoText while unbound
    raised,         \* the exception caught by the outer except, "" if none
    calls,          \* the calls the request made, in order
    rm_failed,      \* os.remove raised inside the inner try
    responses,      \* the responses returned, in order
    fs,             \* the uploads directory: path -> bytes or NoFile
    \* ---- the pure functions ----
    analysis,       \* an analysis record
    recommendations,
    overall_score,
    doc,            \* a text, as its sentences
    passive_voice,
    academic_tone,
    computed        \* the results computed so far

handlerVars == <<pc, upload, body, file_path, text, raised, calls, rm_failed,
                 responses, fs>>
recordVars == <<analysis, recommendations, overall_score>>
textVars == <<doc, passive_voice, academic_tone>>
vars == <<handlerVars, recordVars, textVars, computed>>

----------------------------------------------------------------------------
(* Bounds *)

NumRequests == 2
MaxIssues == 2
MaxSentences == 3

Requests == 1..NumRequests

----------------------------------------------------------------------------
(* Characters and strings *)

\* str.lower() on the characters the model uses
LowerChar(c) ==
    CASE c = "B" -> "b"
      [] c = "D" -> "d"
      [] c = "E" -> "e"
      [] c = "F" -> "f"
      [] c = "H" -> "h"
      [] c = "I" -> "i"
      [] c = "P" -> "p"
      [] c = "T" -> "t"
      [] c = "W" -> "w"
      [] c = "X" -> "x"
      [] OTHER -> c

lower(s) == [i \in 1..Len(s) |-> LowerChar(s[i])]

Letters == {"a", "b", "c", "d", "e", "f", "g", "h", "i", "j", "k", "l", "m",
            "n", "o", "p", "q", "r", "s", "t", "u", "v", "w", "x", "y", "z",
            "B", "D", "E", "F", "H", "I", "P", "T", "W", "X"}

\* str.isalpha(): non-empty and every character a letter
isalpha(s) == Len(s) > 0 /\ \A i \in 1..Len(s) : s[i] \in Letters

\* '.' in filename
HasDot(s) == \E i \in 1..Len(s) : s[i] = "."

\* index of the last '.', scanning from the right; 0 if there is none
RECURSIVE rfind_dot(_, _)
rfind_dot(s, i) ==
    IF i = 0 THEN 0
    ELSE IF s[i] = "." THEN i
    ELSE rfind_dot(s, i - 1)

\* filename.rsplit('.', 1): at most one split, at the last dot
rsplit_dot(s) ==
    LET i == rfind_dot(s, Len(s))
    IN  IF i = 0 THEN <<s>>
        ELSE <<SubSeq(s, 1, i - 1), SubSeq(s, i + 1, Len(s))>>

\* index of the first '.', scanning from the left; 0 if there is none
RECURSIVE find_dot(_, _)
find_dot(s, i) ==
    IF i > Len(s) THEN 0
    ELSE IF s[i] = "." THEN i
    ELSE find_dot(s, i + 1)

\* filename.split('.'): split at every dot
RECURSIVE split_dot(_)
split_dot(s) ==
    LET i == find_dot(s, 1)
    IN  IF i = 0 THEN <<s>>
        ELSE <<SubSeq(s, 1, i - 1)>> \o split_dot(SubSeq(s, i + 1, Len(s)))

ALLOWED_EXTENSIONS ==
    { <<"p", "d", "f">>, <<"d", "o", "c">>, <<"d", "o", "c", "x">>,
      <<"t", "x", "t">> }

\* a whitelist test that reads the component after the first dot
allowed_file_first_dot(filename) ==
    /\ HasDot(filename)
    /\ lower(split_dot(filename)[2]) \in ALLOWED_EXTENSIONS

allowed_file(filename) ==
    /\ HasDot(filename)
    /\ lower(rsplit_dot(filename)[2]) \in ALLOWED_EXTENSIONS

----------------------------------------------------------------------------
(* Uploads *)

FileNames ==
    { <<"a", ".", "t", "x", "t">>,
      <<"a", ".", "P", "D", "F">>,
      <<"b", ".", "d", "o", "c", "x">>,
      <<"r", ".", "e", "x", "e">>,
      <<"a", ".", "t", "x", "t", ".", "e", "x", "e">>,
      <<"a">>,
      <<>> }

\* request.files: the 'thesis' field may be missing
NoUpload == [thesis |-> FALSE, filename |-> <<>>]
Uploads == {NoUpload} \cup {[thesis |-> TRUE, filename |-> n] : n \in FileNames}

\* A document is its text as runs: leading whitespace, a core that starts
\* and ends with a non-blank character, trailing whitespace; a document
\* that is not readable makes its extractor raise.
Blank == [readable |-> TRUE, lead |-> 2, core |-> 0, trail |-> 0]
Short == [readable |-> TRUE, lead |-> 1, core |-> 99, trail |-> 1]
Enough == [readable |-> TRUE, lead |-> 1, core |-> 100, trail |-> 0]
Corrupt == [readable |-> FALSE, lead |-> 0, core |-> 0, trail |-> 0]
Bodies == {Blank, Short, Enough, Corrupt}

NoFile == [absent |-> TRUE]
NoPath == <<"NoPath">>
NoText == [unbound |-> TRUE]

\* os.path.join('uploads', filename)
os_path_join(filename) == <<"uploads", "/">> \o filename

Paths == {os_path_join(n) : n \in FileNames}

\* str.strip()
strip(t) == [lead |-> 0, core |-> t.core, trail |-> 0]

\* len(str)
len(t) == t.lead + t.core + t.trail

MinTextLen == 100

\* a test that only rejects the empty string
Insufficient_empty_only(t) == len(t) = 0

\* not text or len(text.strip()) < 100
Insufficient(t) == len(t) = 0 \/ len(strip(t)) < MinTextLen

----------------------------------------------------------------------------
(* analyze_thesis *)

\* the extractor chosen for a file extension
Extractor(file_extension) ==
    IF file_extension = <<"p", "d", "f">> THEN "extract_text_from_pdf"
    ELSE IF file_extension \in {<<"d", "o", "c">>, <<"d", "o", "c", "x">>}
         THEN "extract_text_from_docx"
    ELSE "extract_text_from_txt"

Extractors ==
    {"extract_text_from_pdf", "extract_text_from_docx", "extract_text_from_txt"}

\* the message an extractor wraps a failure in
ExtractorError(extractor) ==
    CASE extractor = "extract_text_from_pdf" -> "Error reading PDF"
      [] extractor = "extract_text_from_docx" -> "Error reading DOCX"
      [] OTHER -> "Error reading TXT file"

\* the calls after the text check, in the order the handler makes them
Pipeline ==
    << "analyze_readability", "analyze_structure", "detect_passive_voice",
       "check_academic_tone", "check_spelling_grammar_issues",
       "generate_recommendations", "calculate_overall_score" >>

Analyzers == {Pipeline[i] : i \in 1..Len(Pipeline)}

\* the call of the pipeline that the model lets raise, part way through
MayRaise == {"detect_passive_voice"}

\* return jsonify(...), status
Return(r, status, message) ==
    /\ responses' = [responses EXCEPT ![r] =
                        Append(@, [status |-> status, error |-> message])]
    /\ pc' = [pc EXCEPT ![r] = "done"]

\* os.remove(file_path) inside try/except-pass: the file goes unless it is
\* absent or the removal fails, and either failure is swallowed
Remove(r, works) ==
    /\ calls' = [calls EXCEPT ![r] = Append(@, "os.remove")]
    /\ IF fs[file_path[r]] # NoFile /\ works
       THEN /\ fs' = [fs EXCEPT ![file_path[r]] = NoFile]
            /\ rm_failed' = rm_failed
       ELSE /\ fs' = fs
            /\ rm_failed' = [rm_failed EXCEPT ![r] = TRUE]

\* the request arrives and the three checks run (lines 277-288)
Validate(r) ==
    /\ pc[r] = "start"
    /\ \E u \in Uploads :
        /\ upload' = [upload EXCEPT ![r] = u]
        /\ IF ~u.thesis
           THEN Return(r, 400, "No file uploaded")
           ELSE IF u.filename = <<>>
           THEN Return(r, 400, "No file selected")
           ELSE IF ~allowed_file(u.filename)
           THEN Return(r, 400, "File type not allowed")
           ELSE /\ pc' = [pc EXCEPT ![r] = "save"]
                /\ responses' = responses
    /\ UNCHANGED <<body, file_path, text, raised, calls, rm_failed, fs>>
    /\ UNCHANGED <<recordVars, textVars, computed>>

\* file_path is bound and the upload written under the client's name
\* (lines 291-293); file.save may raise
Save(r) ==
    /\ pc[r] = "save"
    /\ file_path' = [file_path EXCEPT ![r] = os_path_join(upload[r].filename)]
    /\ calls' = [calls EXCEPT ![r] = Append(@, "file.save")]
    /\ \/ \E b \in Bodies :
            /\ body' = [body EXCEPT ![r] = b]
            /\ fs' = [fs EXCEPT ![os_path_join(upload[r].filename)] = b]
            /\ pc' = [pc EXCEPT ![r] = "extract"]
            /\ raised' = raised
       \/ /\ pc' = [pc EXCEPT ![r] = "except"]
          /\ raised' = [raised EXCEPT ![r] = "save failed"]
          /\ UNCHANGED <<body, fs>>
    /\ UNCHANGED <<upload, text, rm_failed, responses>>
    /\ UNCHANGED <<recordVars, textVars, computed>>

\* the extractor for the extension reads whatever is at file_path now
\* (lines 296-303)
Extract(r) ==
    /\ pc[r] = "extract"
    /\ LET file_extension == lower(rsplit_dot(upload[r].filename)[2])
           extractor == Extractor(file_extension)
           found == fs[file_path[r]]
       IN  /\ calls' = [calls EXCEPT ![r] = Append(@, extractor)]
           /\ IF found = NoFile \/ ~found.readable
              THEN /\ raised' = [raised EXCEPT ![r] = ExtractorError(extractor)]
                   /\ pc' = [pc EXCEPT ![r] = "except"]
                   /\ text' = text
              ELSE /\ text' = [text EXCEPT ![r] = strip(found)]
                   /\ pc' = [pc EXCEPT ![r] = "analyze"]
                   /\ raised' = raised
    /\ UNCHANGED <<upload, body, file_path, rm_failed, responses, fs>>
    /\ UNCHANGED <<recordVars, textVars, computed>>

\* the text check, then the analyzers, the recommendations and the score
\* (lines 306-327); a call in MayRaise may raise
Analyze(r) ==
    /\ pc[r] = "analyze"
    /\ IF Insufficient(text[r])
       THEN /\ Return(r, 400, "Unable to extract sufficient text")
            /\ UNCHANGED <<calls, raised>>
       ELSE \E k \in 1..Len(Pipeline), raises \in BOOLEAN :
                /\ IF raises THEN Pipeline[k] \in MayRaise
                             ELSE k = Len(Pipeline)
                /\ calls' = [calls EXCEPT ![r] = @ \o SubSeq(Pipeline, 1, k)]
                /\ raised' = [raised EXCEPT ![r] =
                                 IF raises THEN Pipeline[k] ELSE @]
                /\ pc' = [pc EXCEPT ![r] =
                             IF raises THEN "except" ELSE "cleanup"]
                /\ responses' = responses
    /\ UNCHANGED <<upload, body, file_path, text, rm_failed, fs>>
    /\ UNCHANGED <<recordVars, textVars, computed>>

\* the removal on the success path and the 200 response (lines 329-345)
Cleanup(r) ==
    /\ pc[r] = "cleanup"
    /\ \E works \in BOOLEAN : Remove(r, works)
    /\ Return(r, 200, "")
    /\ UNCHANGED <<upload, body, file_path, text, raised>>
    /\ UNCHANGED <<recordVars, textVars, computed>>

\* an outer handler that lets a failed removal replace the caught exception
Except_unguarded(r) ==
    /\ pc[r] = "except"
    /\ \E works \in BOOLEAN :
        /\ Remove(r, works)
        /\ Return(r, 500, IF fs[file_path[r]] # NoFile /\ works
                          THEN raised[r] ELSE "remove failed")
    /\ UNCHANGED <<upload, body, file_path, text, raised>>
    /\ UNCHANGED <<recordVars, textVars, computed>>

\* the outer except: removal if file_path is bound, then the 500 response
\* (lines 347-355)
Except(r) ==
    /\ pc[r] = "except"
    /\ IF file_path[r] # NoPath
       THEN \E works \in BOOLEAN : Remove(r, works)
       ELSE UNCHANGED <<calls, fs, rm_failed>>
    /\ Return(r, 500, raised[r])
    /\ UNCHANGED <<upload, body, file_path, text, raised>>
    /\ UNCHANGED <<recordVars, textVars, computed>>

NoAnalysis ==
    [readability |-> [flesch_reading_ease |-> 0, flesch_kincaid_grade |-> 0],
     structure |-> [avg_sentence_length |-> 0],
     passive_voice |-> [passive_percentage |-> 0],
     academic_tone |-> [academic_word_ratio |-> 0],
     spelling_grammar_issues |-> <<>>]

InitRecordIdle ==
    /\ analysis = NoAnalysis
    /\ recommendations = <<>>
    /\ overall_score = 0

InitTextIdle ==
    /\ doc = <<>>
    /\ passive_voice = [passive_sentences |-> 0, passive_percentage |-> 0]
    /\ academic_tone = [academic_word_count |-> 0, academic_word_ratio |-> 0]

InitHandler ==
    /\ pc = [r \in Requests |-> "start"]
    /\ upload = [r \in Requests |-> NoUpload]
    /\ body = [r \in Requests |-> Corrupt]
    /\ file_path = [r \in Requests |-> NoPath]
    /\ text = [r \in Requests |-> NoText]
    /\ raised = [r \in Requests |-> ""]
    /\ calls = [r \in Requests |-> <<>>]
    /\ rm_failed = [r \in Requests |-> FALSE]
    /\ responses = [r \in Requests |-> <<>>]
    /\ fs = [p \in Paths |-> NoFile]

Init == InitHandler /\ InitRecordIdle /\ InitTextIdle /\ computed = {}

Next ==
    \E r \in Requests :
        \/ Validate(r)
        \/ Save(r)
        \/ Extract(r)
        \/ Analyze(r)
        \/ Cleanup(r)
        \/ Except(r)

Spec == Init /\ [][Next]_vars

----------------------------------------------------------------------------
(* generate_recommendations and calculate_overall_score *)

\* n as a count of hundredths
Hundredths(n) == n * 100

FleschValues == {-500, 1500, 1999, 2000, 2999, 3000, 6000}
GradeValues == {1600, 1601}
SentenceLengthValues == {0, 2500, 2501, 3000, 3001, 3500}
PassiveValues == {0, 1500, 1501, 2000, 2001, 2500, 2501, 3000}
RatioValues == {499, 500}

\* the two issues check_spelling_grammar_issues emits (lines 150-171)
LongSentence == [type |-> "long_sentence", severity |-> "medium"]
WordRepetition == [type |-> "word_repetition", severity |-> "low"]
StyleIssues == {LongSentence, WordRepetition}

IssueLists == UNION {[1..n -> StyleIssues] : n \in 0..MaxIssues}

AnalysisRecords ==
    { [readability |-> [flesch_reading_ease |-> fre,
                        flesch_kincaid_grade |-> fkg],
       structure |-> [avg_sentence_length |-> asl],
       passive_voice |-> [passive_percentage |-> pp],
       academic_tone |-> [academic_word_ratio |-> awr],
       spelling_grammar_issues |-> issues] :
         fre \in FleschValues, fkg \in GradeValues,
         asl \in SentenceLengthValues, pp \in PassiveValues,
         awr \in RatioValues, issues \in IssueLists }

\* issue['type'].replace('_', ' ').title()
Title(type) ==
    CASE type = "long_sentence" -> "Long Sentence"
      [] type = "word_repetition" -> "Word Repetition"

Recommendation(category, title, severity) ==
    [category |-> category, title |-> title, severity |-> severity]

VeryDifficultText ==
    Recommendation("Readability", "Very Difficult Text", "high")
HighEducationLevel ==
    Recommendation("Readability", "High Education Level Required", "medium")
LongSentences == Recommendation("Structure", "Long Sentences", "medium")
PassiveVoiceOveruse ==
    Recommendation("Writing Style", "Passive Voice Overuse", "medium")
LimitedAcademicVocabulary ==
    Recommendation("Academic Style", "Limited Academic Vocabulary", "low")

\* a generator whose second readability rule is an elif of the first
generate_recommendations_elif(a) ==
    LET r1 == IF a.readability.flesch_reading_ease < Hundredths(30)
              THEN <<VeryDifficultText>> ELSE <<>>
        r2 == IF r1 = <<>> /\ a.readability.flesch_kincaid_grade > Hundredths(16)
              THEN Append(r1, HighEducationLevel) ELSE r1
        r3 == IF a.structure.avg_sentence_length > Hundredths(25)
              THEN Append(r2, LongSentences) ELSE r2
        r4 == IF a.passive_voice.passive_percentage > Hundredths(20)
              THEN Append(r3, PassiveVoiceOveruse) ELSE r3
        r5 == IF a.academic_tone.academic_word_ratio < Hundredths(5)
              THEN Append(r4, LimitedAcademicVocabulary) ELSE r4
        issues == a.spelling_grammar_issues
    IN  r5 \o [i \in 1..Len(issues) |->
                  Recommendation("Grammar & Style", Title(issues[i].type),
                                 issues[i].severity)]

generate_recommendations(a) ==
    LET r1 == IF a.readability.flesch_reading_ease < Hundredths(30)
              THEN <<VeryDifficultText>> ELSE <<>>
        r2 == IF a.readability.flesch_kincaid_grade > Hundredths(16)
              THEN Append(r1, HighEducationLevel) ELSE r1
        r3 == IF a.structure.avg_sentence_length > Hundredths(25)
              THEN Append(r2, LongSentences) ELSE r2
        r4 == IF a.passive_voice.passive_percentage > Hundredths(20)
              THEN Append(r3, PassiveVoiceOveruse) ELSE r3
        r5 == IF a.academic_tone.academic_word_ratio < Hundredths(5)
              THEN Append(r4, LimitedAcademicVocabulary) ELSE r4
        issues == a.spelling_grammar_issues
    IN  r5 \o [i \in 1..Len(issues) |->
                  Recommendation("Grammar & Style", Title(issues[i].type),
                                 issues[i].severity)]

min(a, b) == IF a < b THEN a ELSE b
max(a, b) == IF a > b THEN a ELSE b

\* a calculator that adds its penalties and returns the sum unclamped
calculate_overall_score_added(a) ==
    LET s0 == 100
        s1 == IF a.readability.flesch_reading_ease < Hundredths(20) THEN s0 + 20
              ELSE IF a.readability.flesch_reading_ease < Hundredths(30)
              THEN s0 + 10 ELSE s0
        s2 == IF a.structure.avg_sentence_length > Hundredths(30) THEN s1 + 15
              ELSE IF a.structure.avg_sentence_length > Hundredths(25)
              THEN s1 + 8 ELSE s1
        s3 == IF a.passive_voice.passive_percentage > Hundredths(25) THEN s2 + 15
              ELSE IF a.passive_voice.passive_percentage > Hundredths(15)
              THEN s2 + 8 ELSE s2
    IN  s3

\* a calculator whose readability tiers include their upper boundary
calculate_overall_score_inclusive(a) ==
    LET s0 == 100
        s1 == IF a.readability.flesch_reading_ease <= Hundredths(20) THEN s0 - 20
              ELSE IF a.readability.flesch_reading_ease <= Hundredths(30)
              THEN s0 - 10 ELSE s0
        s2 == IF a.structure.avg_sentence_length > Hundredths(30) THEN s1 - 15
              ELSE IF a.structure.avg_sentence_length > Hundredths(25)
              THEN s1 - 8 ELSE s1
        s3 == IF a.passive_voice.passive_percentage > Hundredths(25) THEN s2 - 15
              ELSE IF a.passive_voice.passive_percentage > Hundredths(15)
              THEN s2 - 8 ELSE s2
    IN  max(0, min(100, s3))

\* round(score) of an integer score is the score itself
calculate_overall_score(a) ==
    LET s0 == 100
        s1 == IF a.readability.flesch_reading_ease < Hundredths(20) THEN s0 - 20
              ELSE IF a.readability.flesch_reading_ease < Hundredths(30)
              THEN s0 - 10 ELSE s0
        s2 == IF a.structure.avg_sentence_length > Hundredths(30) THEN s1 - 15
              ELSE IF a.structure.avg_sentence_length > Hundredths(25)
              THEN s1 - 8 ELSE s1
        s3 == IF a.passive_voice.passive_percentage > Hundredths(25) THEN s2 - 15
              ELSE IF a.passive_voice.passive_percentage > Hundredths(15)
              THEN s2 - 8 ELSE s2
    IN  max(0, min(100, s3))

Recommend ==
    /\ "recommendations" \notin computed
    /\ recommendations' = generate_recommendations(analysis)
    /\ computed' = computed \cup {"recommendations"}
    /\ UNCHANGED <<analysis, overall_score, handlerVars, textVars>>

Score ==
    /\ "overall_score" \notin computed
    /\ overall_score' = calculate_overall_score(analysis)
    /\ computed' = computed \cup {"overall_score"}
    /\ UNCHANGED <<analysis, recommendations, handlerVars, textVars>>

InitRecord ==
    /\ analysis \in AnalysisRecords
    /\ recommendations = <<>>
    /\ overall_score = 0
    /\ computed = {}
    /\ InitHandler
    /\ InitTextIdle

NextRecord == Recommend \/ Score

SpecRecord == InitRecord /\ [][NextRecord]_vars

----------------------------------------------------------------------------
(* detect_passive_voice and check_academic_tone *)

\* A text is the sequence of its sentences and a sentence the sequence of
\* its words; the sentence is the words joined by single blanks and closed
\* by a full stop, which is what sent_tokenize returns one by one.
However == <<"H", "o", "w", "e", "v", "e", "r">>
Was == <<"W", "a", "s">>
was == <<"w", "a", "s">>
is == <<"i", "s">>
been == <<"b", "e", "e", "n">>
opened == <<"o", "p", "e", "n", "e", "d">>
eaten == <<"e", "a", "t", "e", "n">>
thrown == <<"t", "h", "r", "o", "w", "n">>
door == <<"d", "o", "o", "r">>

DoorWasOpened == <<door, was, opened>>
DoorWasEaten == <<door, Was, eaten>>
WasThrown == <<was, thrown>>
WasBeenOpened == <<was, been, opened>>
HoweverThrown == <<However, thrown>>
BeenIs == <<been, is>>

Sentences == {DoorWasOpened, DoorWasEaten, WasThrown, WasBeenOpened,
              HoweverThrown, BeenIs}

Texts == UNION {[1..n -> Sentences] : n \in 0..MaxSentences}

sent_tokenize(t) == t

\* word_tokenize of a sentence: its words, then the full stop
FullStop == <<".">>
word_tokenize_sentence(sentence) == Append(sentence, FullStop)

\* word_tokenize of a text: the tokens of its sentences, in order
RECURSIVE word_tokenize(_)
word_tokenize(t) ==
    IF t = <<>> THEN <<>>
    ELSE word_tokenize_sentence(Head(t)) \o word_tokenize(Tail(t))

\* text.lower()
lower_text(t) ==
    [i \in 1..Len(t) |-> [j \in 1..Len(t[i]) |-> lower(t[i][j])]]

\* the alternatives of the be-verb group of both patterns
BeVerbs == { <<"a", "m">>, <<"i", "s">>, <<"a", "r", "e">>, <<"w", "a", "s">>, <<"w", "e", "r", "e">>, <<"b", "e">>, <<"b", "e", "i", "n", "g">>, <<"b", "e", "e", "n">> }

\* the two patterns differ in the ending of the word after the be-verb
passive_patterns_ed_only == << <<"e", "d">> >>

passive_patterns == << <<"e", "d">>, <<"e", "n">> >>

\* \w+<ending>\b on a whole word: at least one character, then the ending
EndsWith(word, ending) ==
    /\ Len(word) > Len(ending)
    /\ SubSeq(word, Len(word) - Len(ending) + 1, Len(word)) = ending

\* re.search(pattern, sentence, re.IGNORECASE): somewhere a be-verb,
\* blanks, and a word with the pattern's ending
re_search(ending, sentence) ==
    \E i \in 1..(Len(sentence) - 1) :
        /\ lower(sentence[i]) \in BeVerbs
        /\ EndsWith(lower(sentence[i + 1]), ending)

\* an inner loop that goes on after a match
RECURSIVE scan_patterns_no_break(_, _)
scan_patterns_no_break(sentence, k) ==
    IF k > Len(passive_patterns) THEN 0
    ELSE (IF re_search(passive_patterns[k], sentence) THEN 1 ELSE 0)
         + scan_patterns_no_break(sentence, k + 1)

\* the inner loop over the patterns from the k-th on: the first match
\* counts the sentence and breaks
RECURSIVE scan_patterns(_, _)
scan_patterns(sentence, k) ==
    IF k > Len(passive_patterns) THEN 0
    ELSE IF re_search(passive_patterns[k], sentence) THEN 1
    ELSE scan_patterns(sentence, k + 1)

\* the outer loop over the sentences
RECURSIVE count_passive(_)
count_passive(sentences) ==
    IF sentences = <<>> THEN 0
    ELSE scan_patterns(Head(sentences), 1) + count_passive(Tail(sentences))

\* round((count / total) * 100, 2) in hundredths, ties to even
round_percentage(count, total) ==
    LET n == count * 10000
        q == n \div total
        rest == n % total
    IN  IF 2 * rest > total THEN q + 1
        ELSE IF 2 * rest = total THEN q + (q % 2)
        ELSE q

detect_passive_voice(t) ==
    LET sentences == sent_tokenize(t)
        passive_count == count_passive(sentences)
    IN  [passive_sentences |-> passive_count,
         passive_percentage |->
             IF sentences # <<>>
             THEN round_percentage(passive_count, Len(sentences)) ELSE 0]

\* stopwords.words('english'), the entries among the model's words
stop_words == {was, is, been}

academic_words ==
    { <<"h", "o", "w", "e", "v", "e", "r">>,
      <<"t", "h", "e", "r", "e", "f", "o", "r", "e">>,
      <<"m", "o", "r", "e", "o", "v", "e", "r">>,
      <<"f", "u", "r", "t", "h", "e", "r", "m", "o", "r", "e">>,
      <<"c", "o", "n", "s", "e", "q", "u", "e", "n", "t", "l", "y">>,
      <<"n", "e", "v", "e", "r", "t", "h", "e", "l", "e", "s", "s">>,
      <<"n", "o", "t", "w", "i", "t", "h", "s", "t", "a", "n", "d", "i", "n", "g">>,
      <<"a", "c", "c", "o", "r", "d", "i", "n", "g", "l", "y">>,
      <<"a", "d", "d", "i", "t", "i", "o", "n", "a", "l", "l", "y">>,
      <<"s", "i", "g", "n", "i", "f", "i", "c", "a", "n", "t", "l", "y">>,
      <<"s", "u", "b", "s", "t", "a", "n", "t", "i", "a", "l", "l", "y">>,
      <<"c", "o", "n", "s", "i", "d", "e", "r", "a", "b", "l", "y">>,
      <<"r", "e", "m", "a", "r", "k", "a", "b", "l", "y">> }

IsContentWord(word) == isalpha(word) /\ word \notin stop_words
IsAcademicWord(word) == word \in academic_words

content_words(t) == SelectSeq(word_tokenize(lower_text(t)), IsContentWord)

check_academic_tone(t) ==
    LET academic_word_count == Len(SelectSeq(content_words(t), IsAcademicWord))
    IN  [academic_word_count |-> academic_word_count,
         academic_word_ratio |->
             IF content_words(t) # <<>>
             THEN round_percentage(academic_word_count, Len(content_words(t)))
             ELSE 0]

DetectPassive ==
    /\ "passive_voice" \notin computed
    /\ passive_voice' = detect_passive_voice(doc)
    /\ computed' = computed \cup {"passive_voice"}
    /\ UNCHANGED <<doc, academic_tone, handlerVars, recordVars>>

CheckTone ==
    /\ "academic_tone" \notin computed
    /\ academic_tone' = check_academic_tone(doc)
    /\ computed' = computed \cup {"academic_tone"}
    /\ UNCHANGED <<doc, passive_voice, handlerVars, recordVars>>

InitText ==
    /\ doc \in Texts
    /\ passive_voice = [passive_sentences |-> 0, passive_percentage |-> 0]
    /\ academic_tone = [academic_word_count |-> 0, academic_word_ratio |-> 0]
    /\ computed = {}
    /\ InitHandler
    /\ InitRecordIdle

NextText == DetectPassive \/ CheckTone

SpecText == InitText /\ [][NextText]_vars

----------------------------------------------------------------------------
(* Properties of analyze_thesis *)

Called(r, f) == \E i \in 1..Len(calls[r]) : calls[r][i] = f

Finished(r) == pc[r] = "done"

Answered(r, status) ==
    /\ Len(responses[r]) = 1
    /\ responses[r][1].status = status

\* C1: every finished request that saved its upload attempted to remove it
\* before it responded, whichever way it left the handler.
C1_RemovalOnEveryExit ==
    \A r \in Requests :
        (Finished(r) /\ Called(r, "file.save")) => Called(r, "os.remove")

\* the extension whitelist as the interface states it: the characters
\* after the last dot, lower-cased, are pdf, doc, docx or txt
Whitelisted(name) ==
    \E i \in 1..Len(name) :
        /\ name[i] = "."
        /\ \A j \in (i + 1)..Len(name) : name[j] # "."
        /\ lower(SubSeq(name, i + 1, Len(name))) \in
              { <<"p", "d", "f">>, <<"d", "o", "c">>,
                <<"d", "o", "c", "x">>, <<"t", "x", "t">> }

Rejection(u) ==
    IF ~u.thesis THEN "No file uploaded"
    ELSE IF Len(u.filename) = 0 THEN "No file selected"
    ELSE IF ~Whitelisted(u.filename) THEN "File type not allowed"
    ELSE ""

\* C2: a request without the thesis field, with an empty file name or with
\* an extension outside the whitelist is answered 400 with the message of
\* the first check it fails, and it saves nothing and calls no extractor
\* and no analyzer.
C2_ValidationBeforeProcessing ==
    \A r \in Requests :
        (pc[r] # "start" /\ Rejection(upload[r]) # "") =>
            /\ Finished(r)
            /\ responses[r] =
                  <<[status |-> 400, error |-> Rejection(upload[r])]>>
            /\ calls[r] = <<>>
            /\ file_path[r] = NoPath

C2_Witness ==
    \E r \in Requests :
        /\ Finished(r)
        /\ upload[r].filename = <<"r", ".", "e", "x", "e">>
        /\ Answered(r, 400)

\* C3: when the extracted text is empty or has fewer than 100 characters
\* the request is answered 400 and none of the analyzers, nor the
\* recommendation generator or the score calculator, runs; any such call
\* is preceded by an extraction of at least 100 characters.
C3_NoAnalysisOfShortText ==
    \A r \in Requests :
        /\ (text[r] # NoText /\ text[r].core < 100) =>
              /\ \A f \in Analyzers : ~Called(r, f)
              /\ Finished(r) => Answered(r, 400)
        /\ (\E f \in Analyzers : Called(r, f)) =>
              /\ text[r] # NoText
              /\ text[r].lead + text[r].core + text[r].trail >= 100
              /\ \E e \in Extractors : Called(r, e)

C3_Witness ==
    \E r \in Requests :
        /\ Finished(r)
        /\ text[r] # NoText
        /\ text[r].core = 99
        /\ Answered(r, 400)

\* C4: from a request's save to the end of its extraction the file at its
\* path holds the bytes that request uploaded, so the text a request
\* extracts is the text of its own upload.
C4_NoCollision ==
    \A r \in Requests :
        /\ pc[r] = "extract" => fs[file_path[r]] = body[r]
        /\ text[r] # NoText => text[r].core = body[r].core

\* C7: a finished request has exactly one response, with status 200, 400
\* or 500; if a call raised, the response is 500 with that exception's
\* message, and if the whole pipeline ran without raising it is 200, in
\* both cases whether or not the removal failed; no call is made twice.
C7_RemovalFailureNeverSurfaces ==
    \A r \in Requests :
        /\ Len(responses[r]) = (IF Finished(r) THEN 1 ELSE 0)
        /\ Finished(r) =>
              /\ responses[r][1].status \in {200, 400, 500}
              /\ raised[r] # "" =>
                    responses[r][1] = [status |-> 500, error |-> raised[r]]
              /\ (raised[r] = "" /\ Called(r, "calculate_overall_score")) =>
                    responses[r][1].status = 200
        /\ \A i, j \in 1..Len(calls[r]) : calls[r][i] = calls[r][j] => i = j

C7_Witness ==
    \E r, q \in Requests :
        /\ Finished(r) /\ raised[r] # "" /\ rm_failed[r] /\ Answered(r, 500)
        /\ Finished(q) /\ raised[q] = "" /\ rm_failed[q] /\ Answered(q, 200)

----------------------------------------------------------------------------
(* Properties of calculate_overall_score and generate_recommendations *)

\* C5: whatever the analysis record, the overall score is an integer from
\* 0 to 100.
C5_ScoreInRange ==
    "overall_score" \in computed => overall_score \in 0..100

C5_Witness ==
    /\ "overall_score" \in computed
    /\ analysis.readability.flesch_reading_ease < 0
    /\ analysis.structure.avg_sentence_length = 3001
    /\ analysis.passive_voice.passive_percentage = 2501
    /\ overall_score = 50

\* the deduction tiers as intervals of hundredths
ReadabilityDeduction(fre) ==
    IF fre <= 1999 THEN 20 ELSE IF fre <= 2999 THEN 10 ELSE 0
LengthDeduction(asl) ==
    IF asl >= 3001 THEN 15 ELSE IF asl >= 2501 THEN 8 ELSE 0
PassiveDeduction(pp) ==
    IF pp >= 2501 THEN 15 ELSE IF pp >= 1501 THEN 8 ELSE 0

\* C6: the overall score is 100 minus one deduction per metric: 20 for a
\* reading ease below 20, else 10 below 30; 15 for an average sentence
\* length above 30, else 8 above 25; 15 for a passive percentage above 25,
\* else 8 above 15; reading ease 15, length 35 and passive 30 give 50.
C6_ScoreIsSumOfDeductions ==
    "overall_score" \in computed =>
        /\ overall_score =
              100 - ( ReadabilityDeduction(analysis.readability.flesch_reading_ease)
                    + LengthDeduction(analysis.structure.avg_sentence_length)
                    + PassiveDeduction(analysis.passive_voice.passive_percentage) )
        /\ ( /\ analysis.readability.flesch_reading_ease = 1500
             /\ analysis.structure.avg_sentence_length = 3500
             /\ analysis.passive_voice.passive_percentage = 3000 )
           => overall_score = 50

C6_Witness ==
    /\ "overall_score" \in computed
    /\ analysis.readability.flesch_reading_ease = 1500
    /\ analysis.structure.avg_sentence_length = 3500
    /\ analysis.passive_voice.passive_percentage = 3000
    /\ overall_score = 50

\* the five threshold rules in their order of emission, each with whether
\* it fires on the analysis record
Rules ==
    << [category |-> "Readability", severity |-> "high",
        fires |-> analysis.readability.flesch_reading_ease <= 2999],
       [category |-> "Readability", severity |-> "medium",
        fires |-> analysis.readability.flesch_kincaid_grade >= 1601],
       [category |-> "Structure", severity |-> "medium",
        fires |-> analysis.structure.avg_sentence_length >= 2501],
       [category |-> "Writing Style", severity |-> "medium",
        fires |-> analysis.passive_voice.passive_percentage >= 2001],
       [category |-> "Academic Style", severity |-> "low",
        fires |-> analysis.academic_tone.academic_word_ratio <= 499] >>

Fires(rule) == rule.fires

\* C10: the recommendations are those of the threshold rules that fire, in
\* the order of the rules, then one 'Grammar & Style' recommendation per
\* style issue, in the order of the issues and with the issue's severity;
\* their number is the number of firing rules plus the number of issues.
C10_RecommendationsInRuleOrder ==
    "recommendations" \in computed =>
        LET fired == SelectSeq(Rules, Fires)
            issues == analysis.spelling_grammar_issues
            n == Cardinality({i \in 1..Len(Rules) : Rules[i].fires})
        IN  /\ Len(recommendations) = n + Len(issues)
            /\ \A i \in 1..Len(fired) :
                  /\ recommendations[i].category = fired[i].category
                  /\ recommendations[i].severity = fired[i].severity
            /\ \A i \in 1..Len(issues) :
                  /\ recommendations[Len(fired) + i].category = "Grammar & Style"
                  /\ recommendations[Len(fired) + i].severity = issues[i].severity
                  /\ recommendations[Len(fired) + i].title = Title(issues[i].type)

C10_Witness ==
    /\ "recommendations" \in computed
    /\ Len(recommendations) = 7
    /\ analysis.spelling_grammar_issues = <<WordRepetition, LongSentence>>

----------------------------------------------------------------------------
(* Properties of detect_passive_voice and check_academic_tone *)

\* C8: the passive percentage and the academic word ratio lie between 0
\* and 100, the passive sentences being at most the sentences and the
\* academic words at most the content words; each is 0 when its divisor,
\* the number of sentences or of content words, is zero.
C8_RatiosWithinZeroToHundred ==
    /\ "passive_voice" \in computed =>
          /\ passive_voice.passive_percentage \in 0..10000
          /\ passive_voice.passive_sentences \in 0..Len(doc)
          /\ Len(doc) = 0 => passive_voice.passive_percentage = 0
    /\ "academic_tone" \in computed =>
          /\ academic_tone.academic_word_ratio \in 0..10000
          /\ academic_tone.academic_word_count \in 0..Len(content_words(doc))
          /\ Len(content_words(doc)) = 0 => academic_tone.academic_word_ratio = 0

C8_Witness ==
    /\ computed = {"passive_voice", "academic_tone"}
    /\ doc = <<HoweverThrown, WasBeenOpened>>
    /\ passive_voice.passive_percentage = 5000
    /\ academic_tone.academic_word_ratio = 3333

\* a be-verb directly before a word of three or more letters that ends as
\* given, whatever the case of either word
BeVerbBefore(sentence, a, b) ==
    \E i \in 1..(Len(sentence) - 1) :
        /\ lower(sentence[i]) \in
              {<<"a", "m">>, <<"i", "s">>, <<"a", "r", "e">>,
               <<"w", "a", "s">>, <<"w", "e", "r", "e">>, <<"b", "e">>,
               <<"b", "e", "i", "n", "g">>, <<"b", "e", "e", "n">>}
        /\ LET word == lower(sentence[i + 1])
           IN  /\ Len(word) >= 3
               /\ word[Len(word) - 1] = a
               /\ word[Len(word)] = b

MatchesEd(sentence) == BeVerbBefore(sentence, "e", "d")
MatchesEn(sentence) == BeVerbBefore(sentence, "e", "n")

PassiveIndices ==
    {i \in 1..Len(doc) : MatchesEd(doc[i]) \/ MatchesEn(doc[i])}

\* C9: passive_sentences is the number of sentences that match the -ed
\* pattern, the -en pattern or both, each counted once; three sentences
\* that each match a pattern give 3 passive sentences and 100 percent.
C9_EachSentenceCountedOnce ==
    "passive_voice" \in computed =>
        /\ passive_voice.passive_sentences = Cardinality(PassiveIndices)
        /\ (Len(doc) = 3 /\ Cardinality(PassiveIndices) = 3) =>
              /\ passive_voice.passive_sentences = 3
              /\ passive_voice.passive_percentage = 10000

C9_Witness ==
    /\ "passive_voice" \in computed
    /\ doc = <<DoorWasOpened, WasBeenOpened, DoorWasEaten>>
    /\ passive_voice.passive_sentences = 3
    /\ passive_voice.passive_percentage = 10000

====
